---- MODULE Spec2Model ----
(***************************************************************************)
(* A model of imbibe (src/imbibe/__main__.py): the directive parser, the   *)
(* record cache, the two resolvers, the formatter and the main program;    *)
(* and of the reverse extractor (src/imbibe/bibextract.py).                *)
(*                                                                         *)
(* Python text that the program takes apart (identifiers, titles, names)   *)
(* is a sequence of one-character strings; a non-ASCII character is        *)
(* written by its name, "<u-umlaut>", "<U+2008>", "<U+2212>", and the line   *)
(* feed is "<nl>".  A printed line is a sequence too; a literal of the     *)
(* program that is only ever printed ("@article{", "  journal={") is one   *)
(* element of it, except on the title line, which is spelled character by  *)
(* character because its two forms can spell the same text.  An optional   *)
(* value is a sequence of length 0 (None) or 1.  An operation that can     *)
(* raise returns [exc, val]: exc is the name of the exception, "" when     *)
(* none was raised.                                                        *)
(***************************************************************************)
EXTENDS Integers, Sequences, FiniteSets, TLC

None == <<>>

Some(v) == <<v>>

\* ------------------------------------------------------------------------
\* Bounds of the model
\* ------------------------------------------------------------------------
MaxLines == 2

MaxRuns == 2

\* ------------------------------------------------------------------------
\* Character classes (str.isalpha, str.isupper, str.isspace, regex \W)
\* ------------------------------------------------------------------------
UpperChars == {"A", "B", "M", "Q"}

LowerChars == {"a", "b", "h", "l", "r", "u", "<u-umlaut>"}

DigitChars == {"0", "1", "2", "3", "9"}

isalpha(c) == c \in UpperChars \cup LowerChars

isupper(c) == c \in UpperChars

isspace(c) == c \in {" ", "<nl>", "<U+2008>"}

isword(c) == c \in UpperChars \cup LowerChars \cup DigitChars \cup {"_"}

\* ------------------------------------------------------------------------
\* String helpers
\* ------------------------------------------------------------------------
RECURSIVE Flatten(_)
Flatten(ss) == IF ss = <<>> THEN <<>> ELSE Head(ss) \o Flatten(Tail(ss))

Contains(s, c) == \E i \in 1..Len(s) : s[i] = c

Slice(s, a, b) == [i \in 1..(IF b >= a THEN b - a + 1 ELSE 0) |-> s[a + i - 1]]

\* Python s[0:n]
Prefix(s, n) == Slice(s, 1, IF n < Len(s) THEN n ELSE Len(s))

\* Python s[n:]
Suffix(s, n) == Slice(s, n + 1, Len(s))

\* Python s.split(sep) for a one-character separator: empty parts are kept.
RECURSIVE SplitOn(_, _, _)
SplitOn(s, sep, cur) ==
    IF s = <<>> THEN <<cur>>
    ELSE IF Head(s) = sep THEN <<cur>> \o SplitOn(Tail(s), sep, <<>>)
    ELSE SplitOn(Tail(s), sep, Append(cur, Head(s)))

Split(s, sep) == SplitOn(s, sep, <<>>)

\* Python s.split(): split on runs of whitespace, no empty parts.
RECURSIVE SplitWhite(_, _)
SplitWhite(s, cur) ==
    IF s = <<>> THEN (IF cur = <<>> THEN <<>> ELSE <<cur>>)
    ELSE IF isspace(Head(s))
         THEN (IF cur = <<>> THEN <<>> ELSE <<cur>>) \o SplitWhite(Tail(s), <<>>)
    ELSE SplitWhite(Tail(s), Append(cur, Head(s)))

\* re.split('(\W)', s): the parts between non-word characters, with each
\* separator kept as a part of its own.
RECURSIVE SplitNonWord(_, _)
SplitNonWord(s, cur) ==
    IF s = <<>> THEN <<cur>>
    ELSE IF ~isword(Head(s))
         THEN <<cur, <<Head(s)>>>> \o SplitNonWord(Tail(s), <<>>)
    ELSE SplitNonWord(Tail(s), Append(cur, Head(s)))

unescape_string(s) ==
    LET keep == {i \in 1..Len(s) : ~(s[i] = "\\" /\ (i = 1 \/ s[i-1] # "\\"))}
        F[i \in 0..Len(s)] ==
            IF i = 0 THEN <<>>
            ELSE IF i \in keep THEN Append(F[i-1], s[i]) ELSE F[i-1]
    IN F[Len(s)]

process_text(text) ==
    LET replace(c) == IF c = "<U+2008>" THEN <<" ">>
                      ELSE IF c = "<U+2212>" THEN <<"-", "-">>
                      ELSE <<c>>
    IN Flatten([i \in 1..Len(text) |-> replace(text[i])])

\* Python s.strip()
RECURSIVE LStrip(_)
LStrip(s) == IF s # <<>> /\ isspace(Head(s)) THEN LStrip(Tail(s)) ELSE s

RECURSIVE RStrip(_)
RStrip(s) ==
    IF s # <<>> /\ isspace(s[Len(s)]) THEN RStrip(SubSeq(s, 1, Len(s) - 1)) ELSE s

Strip(s) == RStrip(LStrip(s))

\* re.split(r'(?<!\\)\[|(?<!\\)\]', line): split on every bracket that is
\* not preceded by a backslash.
RECURSIVE SplitBrackets(_, _, _)
SplitBrackets(s, prev, cur) ==
    IF s = <<>> THEN <<cur>>
    ELSE IF Head(s) \in {"[", "]"} /\ prev # "\\"
         THEN <<cur>> \o SplitBrackets(Tail(s), Head(s), <<>>)
    ELSE SplitBrackets(Tail(s), Head(s), Append(cur, Head(s)))

Ok(v) == [exc |-> "", val |-> v]

Raise(e) == [exc |-> e, val |-> <<>>]

\* ------------------------------------------------------------------------
\* Formatting helpers
\* ------------------------------------------------------------------------
format_author(auth) == auth.family \o <<",", " ">> \o auth.given

format_authorlist(l) ==
    IF Len(l) = 0 THEN <<>>
    ELSE Flatten([i \in 1..(Len(l) - 1) |-> l[i] \o <<" ", "a", "n", "d", " ">>])
         \o l[Len(l)]

strip_nonalphabetic(s) ==
    Flatten([i \in 1..Len(s) |-> IF isalpha(s[i]) THEN <<s[i]>> ELSE <<>>])

\* unidecode.unidecode: transliteration to ASCII
unidecode(s) == [i \in 1..Len(s) |-> IF s[i] = "<u-umlaut>" THEN "u" ELSE s[i]]

make_bibtexid_from_arxivid(firstauthorlastname, arxivid) ==
    LET yymm == IF Contains(arxivid, "/")
                THEN Prefix(Split(arxivid, "/")[2], 4)
                ELSE Split(arxivid, ".")[1]
        name == unidecode(strip_nonalphabetic(firstauthorlastname))
    IN IF ~Contains(arxivid, "/") /\ Len(yymm) # 4
       THEN Raise("AssertionError")
       ELSE Ok(name \o <<"_">> \o yymm)

\* The contents of capitalized_words.txt.
protected_words == { <<"Q">>, <<"Q", "u">>, <<"u">> }

protect_words(title) ==
    LET split == SplitNonWord(title, <<>>)
        prot(word) == IF Len(word) = 0 THEN word
                      ELSE IF isupper(word[1]) /\ word \in protected_words
                           THEN <<"{">> \o word \o <<"}">>
                      ELSE word
    IN Flatten([i \in 1..Len(split) |-> prot(split[i])])

\* origcase_heuristic with the two answers exchanged.
origcase_heuristic_flipped(title) ==
    LET words == SplitWhite(title, <<>>)
        n == Len(words)
        ncapitalized == Cardinality({i \in 1..n : isupper(words[i][1])})
    IN IF n = 0 THEN Raise("ZeroDivisionError")
       ELSE IF 2 * ncapitalized > n THEN Ok(TRUE) ELSE Ok(FALSE)

origcase_heuristic(title) ==
    LET words == SplitWhite(title, <<>>)
        n == Len(words)
        ncapitalized == Cardinality({i \in 1..n : isupper(words[i][1])})
    IN IF n = 0 THEN Raise("ZeroDivisionError")
       ELSE IF 2 * ncapitalized > n THEN Ok(FALSE) ELSE Ok(TRUE)

\* "  title={"
TitleOpen == <<" ", " ", "t", "i", "t", "l", "e", "=", "{">>

\* The title line of output_bib (the arguments handed to print).
TitleLine(origcase_attr, title) ==
    LET h == IF origcase_attr = None THEN origcase_heuristic(title)
             ELSE Ok(origcase_attr[1])
    IN IF h.exc # "" THEN Raise(h.exc)
       ELSE IF h.val
            THEN Ok(TitleOpen \o <<"{">> \o title \o <<"}", "}", ",">>)
            ELSE Ok(TitleOpen \o protect_words(title) \o <<"}", ",">>)

\* ------------------------------------------------------------------------
\* BibItem
\* ------------------------------------------------------------------------
\* Attributes set by BibItem.__init__
InitAttrs == {"canonical_id", "arxivid", "doi", "journal", "detailed_authors",
              "bibtex_id", "abstract", "comment", "arxiv_populated",
              "doi_populated"}

\* Attributes set by init_from_input_file_line
LineAttrs == {"suppress_volumewarning", "origcase", "extra_bibtex_fields"}

\* Attributes set by read_arxiv_information
ArxivAttrs == {"authors", "title"}

\* Attributes set by read_journal_information
JournalAttrs == {"authors", "journal_short", "year", "title", "volume", "page"}

\* A BibItem is its __dict__: attrs is the set of attributes that exist, and
\* an attribute that does not exist yet holds a filler value.
BibItem(arxivid, doi) ==
    IF arxivid = None /\ doi = None THEN Raise("ValueError")
    ELSE Ok([ attrs |-> InitAttrs,
              canonical_id |-> IF arxivid # None
                               THEN <<"arXiv:">> \o arxivid[1]
                               ELSE <<"doi:">> \o doi[1],
              arxivid |-> arxivid,
              doi |-> doi,
              journal |-> None,
              detailed_authors |-> None,
              bibtex_id |-> None,
              abstract |-> None,
              comment |-> None,
              arxiv_populated |-> FALSE,
              doi_populated |-> FALSE,
              suppress_volumewarning |-> FALSE,
              origcase |-> None,
              extra_bibtex_fields |-> <<>>,
              authors |-> <<>>,
              title |-> <<>>,
              journal_short |-> <<>>,
              year |-> 0,
              volume |-> None,
              page |-> <<>> ])

\* ------------------------------------------------------------------------
\* Directive parser
\* ------------------------------------------------------------------------
K_doi == <<"d", "o", "i">>

K_bibtex_id == <<"b", "i", "b", "t", "e", "x", "_", "i", "d">>

K_suppress_volumewarning ==
    <<"s", "u", "p", "p", "r", "e", "s", "s", "_",
      "v", "o", "l", "u", "m", "e", "w", "a", "r", "n", "i", "n", "g">>

K_comment == <<"c", "o", "m", "m", "e", "n", "t">>

K_origcase == <<"o", "r", "i", "g", "c", "a", "s", "e">>

K_yes == <<"y", "e", "s">>

K_no == <<"n", "o">>

K_auto == <<"a", "u", "t", "o">>

\* imbibe.opts_default.optional_bibtex_fields
optional_bibtex_fields == { <<"n", "o", "t", "e">> }

\* One pass of the loop over the options (lines 224-256); st holds the
\* locals doi, bibtex_id, suppress_volumewarning, comment, origcase and
\* extra_bibtex_fields, and exc the exception raised so far.
ParseOpt(st, o) ==
    LET opt == Strip(o)
        opt_split == Split(opt, ":")
        key == opt_split[1]
        value == opt_split[2]
        setextra(d, k, v) ==
            IF \E i \in 1..Len(d) : d[i][1] = k
            THEN [i \in 1..Len(d) |-> IF d[i][1] = k THEN <<k, v>> ELSE d[i]]
            ELSE Append(d, <<k, v>>)
    IN IF st.exc # "" THEN st
       ELSE IF Len(opt_split) < 2 THEN [st EXCEPT !.exc = "IndexError"]
       ELSE IF key = K_doi
            THEN (IF st.doi # None THEN [st EXCEPT !.exc = "RuntimeError"]
                  ELSE [st EXCEPT !.doi = Some(value)])
       ELSE IF key = K_bibtex_id THEN [st EXCEPT !.bibtex_id = Some(value)]
       ELSE IF key = K_suppress_volumewarning
            THEN (IF value = K_yes THEN [st EXCEPT !.suppress_volumewarning = TRUE]
                  ELSE IF value = K_no THEN st
                  ELSE [st EXCEPT !.exc = "RuntimeError"])
       ELSE IF key = K_comment THEN [st EXCEPT !.comment = Some(unescape_string(value))]
       ELSE IF key = K_origcase
            THEN (IF value = K_yes THEN [st EXCEPT !.origcase = Some(TRUE)]
                  ELSE IF value = K_no THEN [st EXCEPT !.origcase = Some(FALSE)]
                  ELSE IF value = K_auto THEN [st EXCEPT !.origcase = None]
                  ELSE st)
       ELSE IF key \in optional_bibtex_fields
            THEN [st EXCEPT !.extra_bibtex_fields =
                                setextra(@, key, unescape_string(value))]
       ELSE [st EXCEPT !.exc = "RuntimeError"]

RECURSIVE ParseOpts(_, _)
ParseOpts(st, opts) ==
    IF opts = <<>> THEN st ELSE ParseOpts(ParseOpt(st, Head(opts)), Tail(opts))

\* init_from_input_file_line on a line that is not in the cache: the new
\* BibItem, or the exception raised.
ParseLine(line) ==
    LET splitline == SplitBrackets(line, "", <<>>)
        main == Strip(splitline[1])
        isdoi == Prefix(main, 4) = <<"d", "o", "i", ":">>
        st0 == [ exc |-> "",
                 doi |-> IF isdoi THEN Some(Suffix(main, 4)) ELSE None,
                 bibtex_id |-> None,
                 suppress_volumewarning |-> FALSE,
                 comment |-> None,
                 origcase |-> None,
                 extra_bibtex_fields |-> <<>> ]
        arxivid == IF isdoi THEN None ELSE Some(main)
        st == IF Len(splitline) > 1
              THEN ParseOpts(st0, Split(splitline[2], ","))
              ELSE st0
        b == BibItem(arxivid, st.doi)
    IN IF st.exc # "" THEN Raise(st.exc)
       ELSE IF b.exc # "" THEN b
       ELSE Ok([b.val EXCEPT !.attrs = @ \cup LineAttrs,
                             !.bibtex_id = st.bibtex_id,
                             !.suppress_volumewarning = st.suppress_volumewarning,
                             !.comment = st.comment,
                             !.origcase = st.origcase,
                             !.extra_bibtex_fields = st.extra_bibtex_fields])

\* init_from_input_file_line: a line found in the cache yields the cached
\* object; otherwise the line is parsed and the new object is cached under
\* the raw line.  Objects are named by the raw line they are cached under.
init_from_input_file_line(cache, line) ==
    IF line \in DOMAIN cache THEN [exc |-> "", cache |-> cache]
    ELSE LET p == ParseLine(line)
         IN IF p.exc # "" THEN [exc |-> p.exc, cache |-> cache]
            ELSE [exc |-> "",
                  cache |-> [l \in DOMAIN cache \cup {line} |->
                                IF l = line THEN p.val ELSE cache[l]]]

\* ------------------------------------------------------------------------
\* BibItem methods
\* ------------------------------------------------------------------------
\* str() of a natural number
RECURSIVE IntToStr(_)
IntToStr(n) ==
    LET digit(d) == CASE d = 0 -> "0" [] d = 1 -> "1" [] d = 2 -> "2"
                      [] d = 3 -> "3" [] d = 4 -> "4" [] d = 5 -> "5"
                      [] d = 6 -> "6" [] d = 7 -> "7" [] d = 8 -> "8"
                      [] d = 9 -> "9"
    IN IF n < 10 THEN <<digit(n)>> ELSE Append(IntToStr(n \div 10), digit(n % 10))

first_author_lastname(self) ==
    IF self.detailed_authors # None
    THEN (IF Len(self.detailed_authors[1]) = 0 THEN Raise("IndexError")
          ELSE Ok(self.detailed_authors[1][1].family))
    ELSE IF "authors" \notin self.attrs THEN Raise("AttributeError")
    ELSE IF Len(self.authors) = 0 THEN Raise("IndexError")
    ELSE LET parts == Split(self.authors[1], " ") IN Ok(parts[Len(parts)])

\* generate_bibtexid that makes a key of the doi instead of raising.
generate_bibtexid_no_check(self) ==
    IF self.bibtex_id # None THEN Ok(self.bibtex_id[1])
    ELSE IF self.arxivid = None THEN Ok(<<"doi:">> \o self.doi[1])
    ELSE LET n == first_author_lastname(self)
         IN IF n.exc # "" THEN n
            ELSE make_bibtexid_from_arxivid(n.val, self.arxivid[1])

generate_bibtexid(self) ==
    IF self.bibtex_id # None THEN Ok(self.bibtex_id[1])
    ELSE IF self.arxivid = None THEN Raise("ValueError")
    ELSE LET n == first_author_lastname(self)
         IN IF n.exc # "" THEN n
            ELSE make_bibtexid_from_arxivid(n.val, self.arxivid[1])

\* read_arxiv_information in which the doi of the result always wins.
read_arxiv_information_provider_wins(self, arxivresult) ==
    LET conflict == self.doi # None /\ arxivresult.doi # None
                    /\ self.doi # arxivresult.doi
    IN [ exc |-> "",
         self |-> [self EXCEPT !.attrs = @ \cup ArxivAttrs,
                               !.authors = arxivresult.authors,
                               !.title = arxivresult.title,
                               !.abstract = Some(arxivresult.summary),
                               !.doi = IF arxivresult.doi # None
                                       THEN arxivresult.doi ELSE @,
                               !.arxiv_populated = TRUE],
         err |-> IF conflict THEN <<"doi-disagrees">> ELSE <<>> ]

\* read_arxiv_information: the record after the call and the warnings
\* written to stderr (one entry per warning).
read_arxiv_information(self, arxivresult) ==
    LET conflict == self.doi # None /\ arxivresult.doi # None
                    /\ self.doi # arxivresult.doi
        s1 == [self EXCEPT !.attrs = @ \cup ArxivAttrs,
                           !.authors = arxivresult.authors,
                           !.title = arxivresult.title,
                           !.abstract = Some(arxivresult.summary)]
        s2 == IF conflict THEN s1
              ELSE IF arxivresult.doi # None
                   THEN [s1 EXCEPT !.doi = arxivresult.doi]
              ELSE s1
    IN [ exc |-> "",
         self |-> [s2 EXCEPT !.arxiv_populated = TRUE],
         err |-> IF conflict THEN <<"doi-disagrees">> ELSE <<>> ]

\* The contents of badjournals.txt.
badjournals == { <<"BadJ">> }

\* JournalChecks without the check of the type.
JournalChecks_no_type_check(cr_result) ==
    LET has(k) == k \in cr_result.keys
    IN IF ~has("type") THEN <<"KeyError", 0>>
       ELSE IF ~has("author") THEN <<"KeyError", 0>>
       ELSE IF ~has("container-title") THEN <<"KeyError", 2>>
       ELSE IF Len(cr_result.container_title) = 0 THEN <<"IndexError", 2>>
       ELSE IF cr_result.container_title[1] \in badjournals THEN <<"SystemExit", 3>>
       ELSE IF ~has("short-container-title") THEN <<"KeyError", 3>>
       ELSE IF ~has("issued") THEN <<"KeyError", 4>>
       ELSE IF ~has("title") THEN <<"KeyError", 5>>
       ELSE IF Len(cr_result.title) = 0 THEN <<"IndexError", 5>>
       ELSE IF ~has("article-number") /\ ~has("page") THEN <<"KeyError", 7>>
       ELSE <<"", 8>>

\* The checks of read_journal_information in the order the code makes them:
\* the exception of the first that fails and the number of assignments to
\* self made before it (8 and no exception when none fails).
JournalChecks(cr_result) ==
    LET has(k) == k \in cr_result.keys
    IN IF ~has("type") THEN <<"KeyError", 0>>
       ELSE IF cr_result.type # "journal-article" THEN <<"SystemExit", 0>>
       ELSE IF ~has("author") THEN <<"KeyError", 0>>
       ELSE IF ~has("container-title") THEN <<"KeyError", 2>>
       ELSE IF Len(cr_result.container_title) = 0 THEN <<"IndexError", 2>>
       ELSE IF cr_result.container_title[1] \in badjournals THEN <<"SystemExit", 3>>
       ELSE IF ~has("short-container-title") THEN <<"KeyError", 3>>
       ELSE IF ~has("issued") THEN <<"KeyError", 4>>
       ELSE IF ~has("title") THEN <<"KeyError", 5>>
       ELSE IF Len(cr_result.title) = 0 THEN <<"IndexError", 5>>
       ELSE IF ~has("article-number") /\ ~has("page") THEN <<"KeyError", 7>>
       ELSE <<"", 8>>

\* The assignments of read_journal_information, the first n of them:
\* detailed_authors, authors, journal, journal_short, year, title, volume,
\* then page and doi_populated.
JournalAssign(self, cr_result, n) ==
    [self EXCEPT
        !.attrs = @ \cup (IF n >= 2 THEN {"authors"} ELSE {})
                    \cup (IF n >= 4 THEN {"journal_short"} ELSE {})
                    \cup (IF n >= 5 THEN {"year"} ELSE {})
                    \cup (IF n >= 6 THEN {"title"} ELSE {})
                    \cup (IF n >= 7 THEN {"volume"} ELSE {})
                    \cup (IF n >= 8 THEN {"page"} ELSE {}),
        !.detailed_authors = IF n >= 1 THEN Some(cr_result.author) ELSE @,
        !.authors = IF n >= 2
                    THEN [i \in 1..Len(cr_result.author) |->
                             format_author(cr_result.author[i])]
                    ELSE @,
        !.journal = IF n >= 3 THEN Some(cr_result.container_title[1]) ELSE @,
        !.journal_short = IF n >= 4
                          THEN (IF Len(cr_result.short_container_title) = 0
                                THEN cr_result.container_title[1]
                                ELSE cr_result.short_container_title[1])
                          ELSE @,
        !.year = IF n >= 5 THEN cr_result.year ELSE @,
        !.title = IF n >= 6 THEN cr_result.title[1] ELSE @,
        !.volume = IF n >= 7
                   THEN (IF "volume" \in cr_result.keys THEN Some(cr_result.volume)
                         ELSE None)
                   ELSE @,
        !.page = IF n >= 8
                 THEN (IF "article-number" \in cr_result.keys
                       THEN cr_result.article_number
                       ELSE Split(cr_result.page, "-")[1])
                 ELSE @,
        !.doi_populated = IF n >= 8 THEN TRUE ELSE @]

JournalRead(self, cr_result, c) ==
    [ exc |-> c[1],
      self |-> JournalAssign(self, cr_result, c[2]),
      out |-> IF c[1] = "KeyError" THEN << <<"<cr_result>">> >> ELSE <<>> ]

\* read_journal_information: the record after the call (as far as the
\* assignments went when an exception is raised), the exception, and what
\* was printed (the raw response, on a KeyError).  cr_result is the message
\* of the response: keys is the set of keys it has.
read_journal_information(self, cr_result) ==
    JournalRead(self, cr_result, JournalChecks(cr_result))

\* The exception output_bib raises and the number of the step that raises
\* it: 0 the key, 2 the volume warning, 4 the title line, 6 the author line
\* (7 and no exception when none raises).
OutputChecks(self, key, t) ==
    IF key.exc # "" THEN <<key.exc, 0>>
    ELSE IF self.journal # None /\ self.volume = None
            /\ "suppress_volumewarning" \notin self.attrs
         THEN <<"AttributeError", 2>>
    ELSE IF "title" \notin self.attrs THEN <<"AttributeError", 4>>
    ELSE IF t.exc # "" THEN <<t.exc, 4>>
    ELSE IF "authors" \notin self.attrs THEN <<"AttributeError", 6>>
    ELSE <<"", 7>>

\* The print calls of output_bib before step n: 1 the comment, the opening
\* line, the abstract and the eprint lines, 2 the journal block, 3 the
\* volume line, 4 the doi line, 5 the title line, 6 the extra fields, 7 the
\* author line and the end of the entry.
OutputLines(self, eprint_published, viamyprint, key, t, n) ==
    LET P(line) == IF viamyprint THEN process_text(line) ELSE line
        extra == IF "extra_bibtex_fields" \in self.attrs
                 THEN self.extra_bibtex_fields ELSE <<>>
    IN (IF n >= 1 /\ self.comment # None THEN <<P(self.comment[1])>> ELSE <<>>)
       \o (IF n >= 1 THEN <<P(<<"@article{">> \o key.val \o <<",">>)>> ELSE <<>>)
       \o (IF n >= 1 /\ self.abstract # None
           THEN <<P(<<"  abstract={">> \o self.abstract[1] \o <<"},">>)>>
           ELSE <<>>)
       \o (IF n >= 1 /\ self.arxivid # None /\ (self.doi = None \/ eprint_published)
           THEN <<P(<<"  archiveprefix={arXiv},">>),
                  P(<<"  eprint={">> \o self.arxivid[1] \o <<"},">>)>>
           ELSE <<>>)
       \o (IF n >= 2 /\ self.journal # None
           THEN <<P(<<"  journal={">> \o self.journal_short \o <<"},">>),
                  P(<<"  pages={">> \o self.page \o <<"},">>),
                  P(<<"  year={">> \o IntToStr(self.year) \o <<"},">>)>>
           ELSE <<>>)
       \o (IF n >= 3 /\ self.journal # None /\ self.volume # None
           THEN <<P(<<"  volume={">> \o self.volume[1] \o <<"},">>)>>
           ELSE <<>>)
       \o (IF n >= 4 /\ self.doi # None
           THEN <<P(<<"  doi={">> \o self.doi[1] \o <<"},">>)>>
           ELSE <<>>)
       \o (IF n >= 5 THEN <<P(t.val)>> ELSE <<>>)
       \o (IF n >= 6
           THEN [i \in 1..Len(extra) |->
                    P(<<"  ">> \o extra[i][1] \o <<"={">> \o extra[i][2] \o <<"},">>)]
           ELSE <<>>)
       \o (IF n >= 7
           THEN <<P(<<"  author={">> \o format_authorlist(self.authors) \o <<"}">>),
                  P(<<"}">>), P(<<>>)>>
           ELSE <<>>)

OutputResult(self, eprint_published, viamyprint, key, t, c) ==
    [ exc |-> c[1],
      out |-> OutputLines(self, eprint_published, viamyprint, key, t, c[2]),
      err |-> IF c[2] >= 3 /\ self.journal # None /\ self.volume = None
                 /\ ~self.suppress_volumewarning
              THEN <<"no-volume">> ELSE <<>> ]

\* output_bib: the lines printed (each line is the argument of one print
\* call), the warnings written to stderr, and the exception raised, if any.
\* viamyprint tells whether print is bound to myprint (directive-file mode).
\* (protect_words also prints its split list to stderr.)
output_bib(self, eprint_published, viamyprint) ==
    OutputResult(self, eprint_published, viamyprint,
                 generate_bibtexid(self),
                 TitleLine(IF "origcase" \in self.attrs THEN self.origcase ELSE None,
                           self.title),
                 OutputChecks(self, generate_bibtexid(self),
                              TitleLine(IF "origcase" \in self.attrs
                                        THEN self.origcase ELSE None,
                                        self.title)))

\* ------------------------------------------------------------------------
\* Cache file (json.dump of every __dict__, json.load back)
\* ------------------------------------------------------------------------
TextAttrs == {"canonical_id", "title", "journal_short", "page"}

OptTextAttrs == {"arxivid", "doi", "journal", "bibtex_id", "abstract",
                 "comment", "volume"}

BoolAttrs == {"arxiv_populated", "doi_populated", "suppress_volumewarning"}

JBool(b) == IF b THEN <<"true">> ELSE <<"false">>

\* json.dump of one attribute value
json_dump_value(a, v) ==
    IF a \in TextAttrs THEN <<"string", v>>
    ELSE IF a \in OptTextAttrs
         THEN (IF v = None THEN <<"null">> ELSE <<"string", v[1]>>)
    ELSE IF a \in BoolAttrs THEN JBool(v)
    ELSE IF a = "origcase" THEN (IF v = None THEN <<"null">> ELSE JBool(v[1]))
    ELSE IF a = "year" THEN <<"number", v>>
    ELSE IF a = "authors"
         THEN <<"array", [i \in 1..Len(v) |-> <<"string", v[i]>>]>>
    ELSE IF a = "detailed_authors"
         THEN (IF v = None THEN <<"null">>
               ELSE <<"array", [i \in 1..Len(v[1]) |->
                          <<"object", [family |-> <<"string", v[1][i].family>>,
                                       given |-> <<"string", v[1][i].given>>]>>]>>)
    ELSE \* extra_bibtex_fields
         <<"object", [i \in 1..Len(v) |-> <<v[i][1], <<"string", v[i][2]>>>>]>>

\* json.load of one attribute value
json_load_value(a, j) ==
    IF a \in TextAttrs THEN j[2]
    ELSE IF a \in OptTextAttrs
         THEN (IF j[1] = "null" THEN None ELSE Some(j[2]))
    ELSE IF a \in BoolAttrs THEN j[1] = "true"
    ELSE IF a = "origcase"
         THEN (IF j[1] = "null" THEN None ELSE Some(j[1] = "true"))
    ELSE IF a = "year" THEN j[2]
    ELSE IF a = "authors" THEN [i \in 1..Len(j[2]) |-> j[2][i][2]]
    ELSE IF a = "detailed_authors"
         THEN (IF j[1] = "null" THEN None
               ELSE Some([i \in 1..Len(j[2]) |->
                            [family |-> j[2][i][2].family[2],
                             given |-> j[2][i][2].given[2]]]))
    ELSE [i \in 1..Len(j[2]) |-> <<j[2][i][1], j[2][i][2][2]>>]

AllAttrs == InitAttrs \cup LineAttrs \cup ArxivAttrs \cup JournalAttrs

\* The filler of an attribute that does not exist
Filler(a) ==
    IF a \in BoolAttrs THEN FALSE
    ELSE IF a = "year" THEN 0
    ELSE <<>>

\* save_cache that leaves the two population flags out.
json_dump_item_noflags(item) ==
    [a \in item.attrs \ {"arxiv_populated", "doi_populated"} |->
        json_dump_value(a, item[a])]

\* json.dump of i.__dict__ (save_cache)
json_dump_item(item) == [a \in item.attrs |-> json_dump_value(a, item[a])]

\* init_from_dict (load_cache): an object whose __dict__ is the loaded
\* dictionary; __init__ does not run.
init_from_dict(d) ==
    [a \in AllAttrs \cup {"attrs"} |->
        IF a = "attrs" THEN DOMAIN d
        ELSE IF a \in DOMAIN d THEN json_load_value(a, d[a])
        ELSE Filler(a)]

\* ------------------------------------------------------------------------
\* The two metadata services (the answers they can give)
\* ------------------------------------------------------------------------
DoiA == <<"1", "/", "a">>

DoiB == <<"1", "/", "b">>

\* Results of arxiv.query
ArxivResults ==
    { [ authors |-> << <<"A", " ", "M", "<u-umlaut>", "l">> >>,
        title |-> <<"Q", "u", " ", "u">>,
        summary |-> <<"abs">>,
        doi |-> d ] : d \in {None, Some(DoiB)} }

CrossrefGood ==
    [ keys |-> {"type", "author", "container-title", "short-container-title",
                "issued", "title", "volume", "page"},
      type |-> "journal-article",
      author |-> << [family |-> <<"M", "a">>, given |-> <<"A">>] >>,
      container_title |-> << <<"Journal">> >>,
      short_container_title |-> << <<"J">> >>,
      year |-> 2023,
      title |-> << <<"Q", "u", " ", "u", " ", "Q">> >>,
      volume |-> <<"7">>,
      article_number |-> <<>>,
      page |-> <<"1", "-", "9">> ]

\* Messages of the responses of cr.works
CrossrefMessages ==
    { CrossrefGood,
      [CrossrefGood EXCEPT !.keys = @ \ {"volume"}],
      [CrossrefGood EXCEPT !.type = "proceedings-article"],
      [CrossrefGood EXCEPT !.keys = @ \ {"issued"}] }

\* ------------------------------------------------------------------------
\* Resolvers
\* ------------------------------------------------------------------------
\* The bibitems of the list that a resolver works on, in list order.
RECURSIVE Filter(_, _, _)
Filter(heap, refs, attr) ==
    IF refs = <<>> THEN <<>>
    ELSE (IF heap[Head(refs)][attr] # None
             /\ ~heap[Head(refs)][IF attr = "arxivid" THEN "arxiv_populated"
                                  ELSE "doi_populated"]
          THEN <<Head(refs)>> ELSE <<>>)
         \o Filter(heap, Tail(refs), attr)

\* reads records, for every call of read_arxiv_information, the object, its
\* doi before and after, the doi of the result, the number of warnings the
\* call printed and whether canonical_id was left alone.
ArxivReadRecord(ref, before, result, r) ==
    [ ref |-> ref,
      doi_before |-> before.doi,
      doi_result |-> result.doi,
      doi_after |-> r.self.doi,
      warnings |-> Len(r.err),
      same_id |-> r.self.canonical_id = before.canonical_id,
      populated |-> r.self.arxiv_populated ]

RECURSIVE ReadArxivAll(_, _, _, _, _)
RECURSIVE ReadArxivNext(_, _, _, _, _, _)
ReadArxivNext(heap, refs, results, err, reads, r) ==
    ReadArxivAll([heap EXCEPT ![Head(refs)] = r.self],
                 Tail(refs), Tail(results),
                 err \o [i \in 1..Len(r.err) |-> <<Head(refs), r.err[i]>>],
                 Append(reads, ArxivReadRecord(Head(refs), heap[Head(refs)],
                                               Head(results), r)))

\* for bibitem,result in zip(...): bibitem.read_arxiv_information(result)
ReadArxivAll(heap, refs, results, err, reads) ==
    IF refs = <<>> \/ results = <<>>
    THEN [heap |-> heap, err |-> err, reads |-> reads]
    ELSE ReadArxivNext(heap, refs, results, err, reads,
                       read_arxiv_information(heap[Head(refs)], Head(results)))

\* populate_arxiv_information that raises after the individual lookups
\* whatever they give.
populate_arxiv_information_always_raise(heap, list_of_bibitems, svc) ==
    LET bibitems_with_arxivid == Filter(heap, list_of_bibitems, "arxivid")
        arxiv_ids == [i \in 1..Len(bibitems_with_arxivid) |->
                         heap[bibitems_with_arxivid[i]].arxivid[1]]
        n == Len(arxiv_ids)
        res(e, h, w, c) == [exc |-> e, heap |-> h, err |-> w, calls |-> c,
                            refs |-> bibitems_with_arxivid, reads |-> <<>>]
        firstbad == IF \E i \in 1..n : svc.indiv[i] = None
                    THEN CHOOSE i \in 1..n : svc.indiv[i] = None
                                    /\ \A j \in 1..(i-1) : svc.indiv[j] # None
                    ELSE n
    IN IF n = 0 THEN res("", heap, <<>>, <<>>)
       ELSE IF svc.batch = "other" THEN res("Exception", heap, <<>>, <<arxiv_ids>>)
       ELSE IF svc.batch = "400"
            THEN res("Exception", heap, <<>>,
                     <<arxiv_ids>> \o [i \in 1..firstbad |-> <<arxiv_ids[i]>>])
       ELSE IF Len(svc.results) # n
            THEN res("RuntimeError", heap, <<>>, <<arxiv_ids>>)
       ELSE LET r == ReadArxivAll(heap, bibitems_with_arxivid, svc.results, <<>>, <<>>)
            IN [res("", r.heap, r.err, <<arxiv_ids>>) EXCEPT !.reads = r.reads]

\* populate_arxiv_information.  svc is what the service does in this call:
\* batch is the outcome of the batched query ("ok", "400" for the exception
\* 'HTTP Error 400 in query', "other" for any other exception), results the
\* list it returns, and indiv[i] the outcome of the i-th individual query
\* (None: it raises).
populate_arxiv_information(heap, list_of_bibitems, svc) ==
    LET bibitems_with_arxivid == Filter(heap, list_of_bibitems, "arxivid")
        arxiv_ids == [i \in 1..Len(bibitems_with_arxivid) |->
                         heap[bibitems_with_arxivid[i]].arxivid[1]]
        n == Len(arxiv_ids)
        res(e, h, w, c) == [exc |-> e, heap |-> h, err |-> w, calls |-> c,
                            refs |-> bibitems_with_arxivid, reads |-> <<>>]
        anybad == \E i \in 1..n : svc.indiv[i] = None
        firstbad == CHOOSE i \in 1..n : svc.indiv[i] = None
                                /\ \A j \in 1..(i-1) : svc.indiv[j] # None
        results == IF svc.batch = "ok" THEN svc.results
                   ELSE [i \in 1..n |-> svc.indiv[i][1]]
        calls == IF svc.batch = "400"
                 THEN <<arxiv_ids>> \o [i \in 1..(IF anybad THEN firstbad ELSE n) |->
                                           <<arxiv_ids[i]>>]
                 ELSE <<arxiv_ids>>
    IN IF n = 0 THEN res("", heap, <<>>, <<>>)
       ELSE IF svc.batch = "other" THEN res("Exception", heap, <<>>, calls)
       ELSE IF svc.batch = "400" /\ anybad
            THEN res("Exception", heap,
                     << <<bibitems_with_arxivid[firstbad], "arxiv-id-not-found">> >>,
                     calls)
       ELSE IF Len(results) # n THEN res("RuntimeError", heap, <<>>, calls)
       ELSE LET r == ReadArxivAll(heap, bibitems_with_arxivid, results, <<>>, <<>>)
            IN [res("", r.heap, r.err, calls) EXCEPT !.reads = r.reads]

\* The outcomes of one populate_arxiv_information call on n ids.
ArxivOutcomes(n) ==
    { [batch |-> "ok", results |-> rs, indiv |-> <<>>] :
          rs \in [1..n -> ArxivResults] \cup [1..(n-1) -> ArxivResults] }
    \cup { [batch |-> "other", results |-> <<>>, indiv |-> <<>>] }
    \cup { [batch |-> "400", results |-> <<>>, indiv |-> iv] :
          iv \in [1..n -> {None} \cup {Some(r) : r \in ArxivResults}] }

\* reads records, for every call of read_journal_information, the object,
\* the type of the response and whether the call changed the object.
JournalReadRecord(ref, before, result, r) ==
    [ ref |-> ref,
      type |-> IF "type" \in result.keys THEN result.type ELSE "<no type>",
      changed |-> r.self # before,
      populated |-> r.self.doi_populated ]

RECURSIVE ReadJournalAll(_, _, _, _)
RECURSIVE ReadJournalNext(_, _, _, _, _)
ReadJournalNext(heap, refs, results, reads, r) ==
    IF r.exc # ""
    THEN [exc |-> r.exc, heap |-> [heap EXCEPT ![Head(refs)] = r.self],
          out |-> r.out,
          reads |-> Append(reads, JournalReadRecord(Head(refs), heap[Head(refs)],
                                                    Head(results), r))]
    ELSE ReadJournalAll([heap EXCEPT ![Head(refs)] = r.self],
                        Tail(refs), Tail(results),
                        Append(reads, JournalReadRecord(Head(refs), heap[Head(refs)],
                                                        Head(results), r)))

\* for bibitem,result in zip(...): bibitem.read_journal_information(result)
ReadJournalAll(heap, refs, results, reads) ==
    IF refs = <<>> \/ results = <<>>
    THEN [exc |-> "", heap |-> heap, out |-> <<>>, reads |-> reads]
    ELSE ReadJournalNext(heap, refs, results, reads,
                         read_journal_information(heap[Head(refs)], Head(results)))

\* crossref_read: one request per element of dois, in order (chunk_size is
\* 1); the requests made and the exception of the first that fails.
\* answers[i] is None when the i-th request raises.
crossref_read(dois, answers) ==
    LET n == Len(dois)
        anybad == \E i \in 1..n : answers[i] = None
        firstbad == CHOOSE i \in 1..n : answers[i] = None
                                /\ \A j \in 1..(i-1) : answers[j] # None
    IN IF anybad
       THEN [exc |-> "HTTPError", results |-> <<>>,
             calls |-> [i \in 1..firstbad |-> dois[i]]]
       ELSE [exc |-> "", results |-> [i \in 1..n |-> answers[i][1]],
             calls |-> dois]

\* The objects of refs without those whose doi an earlier one has.
RECURSIVE DedupByDoi(_, _, _)
DedupByDoi(heap, refs, seen) ==
    IF refs = <<>> THEN <<>>
    ELSE IF heap[Head(refs)].doi[1] \in seen
         THEN DedupByDoi(heap, Tail(refs), seen)
    ELSE <<Head(refs)>>
         \o DedupByDoi(heap, Tail(refs), seen \cup {heap[Head(refs)].doi[1]})

\* populate_doi_information that submits every distinct doi once.
populate_doi_information_dedup(heap, list_of_bibitems, answers) ==
    LET bibitems_with_doi == DedupByDoi(heap, Filter(heap, list_of_bibitems, "doi"), {})
        dois == [i \in 1..Len(bibitems_with_doi) |-> heap[bibitems_with_doi[i]].doi[1]]
        res(e, h, o, c) == [exc |-> e, heap |-> h, out |-> o, calls |-> c,
                            refs |-> Filter(heap, list_of_bibitems, "doi"),
                            reads |-> <<>>]
        rd == crossref_read(dois, SubSeq(answers, 1, Len(dois)))
    IN IF Len(dois) = 0 THEN res("", heap, <<>>, <<>>)
       ELSE IF rd.exc # "" THEN res(rd.exc, heap, <<>>, rd.calls)
       ELSE LET r == ReadJournalAll(heap, bibitems_with_doi, rd.results, <<>>)
            IN [res(r.exc, r.heap, r.out, rd.calls) EXCEPT !.reads = r.reads]

\* populate_doi_information; out is what it prints through print.
populate_doi_information(heap, list_of_bibitems, answers) ==
    LET bibitems_with_doi == Filter(heap, list_of_bibitems, "doi")
        dois == [i \in 1..Len(bibitems_with_doi) |-> heap[bibitems_with_doi[i]].doi[1]]
        res(e, h, o, c) == [exc |-> e, heap |-> h, out |-> o, calls |-> c,
                            refs |-> bibitems_with_doi, reads |-> <<>>]
        rd == crossref_read(dois, answers)
    IN IF Len(dois) = 0 THEN res("", heap, <<>>, <<>>)
       ELSE IF rd.exc # "" THEN res(rd.exc, heap, <<>>, rd.calls)
       ELSE LET r == ReadJournalAll(heap, bibitems_with_doi, rd.results, <<>>)
            IN [res(r.exc, r.heap, r.out, rd.calls) EXCEPT !.reads = r.reads]

\* The answers of the document service to n requests.
CrossrefAnswers(n) == [1..n -> {None} \cup {Some(m) : m \in CrossrefMessages}]

\* ------------------------------------------------------------------------
\* The main program
\* ------------------------------------------------------------------------
\* Raw lines of the input file
LineArxivDoi ==
    <<"2", "3", "0", "3", ".", "1", " ", "[", "d", "o", "i", ":", "1", "/", "a", "]", "<nl>">>

LineOldSuppress ==
    <<"h", "/", "9", "9", "0", "1", "7", "[">> \o K_suppress_volumewarning
        \o <<":", "y", "e", "s", "]", "<nl>">>

LineDoi == <<"d", "o", "i", ":", "1", "/", "a", "<nl>">>

LineDoiKey ==
    <<"d", "o", "i", ":", "1", "/", "a", "[">> \o K_bibtex_id
        \o <<":", "Q", "u", ",", " ">> \o K_comment
        \o <<":", "%", "u", "]", "<nl>">>

LineBadOption == <<"d", "o", "i", ":", "1", "/", "b", "[", "x", ":", "y", "]", "<nl>">>

LineBlank == <<" ", "<nl>">>

Lines == {LineArxivDoi, LineOldSuppress, LineDoi, LineDoiKey, LineBadOption}

ArxivIdArgs == { <<"2", "3", "0", "3", ".", "1">>, <<"h", "/", "9", "9", "0", "1", "7">> }

DoiArgs == { DoiA }

\* The name of the object made from a command-line identifier
CmdRef == <<"<cmdline>">>

\* The input files: up to MaxLines directive lines and a blank last line.
InputFiles == { f \o <<LineBlank>> : f \in UNION { [1..n -> Lines] : n \in 0..MaxLines } }

\* The flags --print-keys and --no-eprint-published (eprint_published is
\* read by output_bib only, which keys-only mode does not call).
FlagSets == { <<FALSE, TRUE>>, <<FALSE, FALSE>>, <<TRUE, TRUE>> }

\* The flags of the directive-file runs
FileFlagSets == { <<FALSE, TRUE>>, <<TRUE, TRUE>> }

\* The parsed command line
ArgSets ==
    { [mode |-> "arxiv", id |-> a, print_keys |-> fl[1], eprint_published |-> fl[2],
       outputfile |-> FALSE, lines |-> <<>>] :
          a \in ArxivIdArgs, fl \in FlagSets }
    \cup
    { [mode |-> "doi", id |-> d, print_keys |-> fl[1], eprint_published |-> fl[2],
       outputfile |-> FALSE, lines |-> <<>>] :
          d \in DoiArgs, fl \in FlagSets }
    \cup
    { [mode |-> "file", id |-> <<>>, print_keys |-> fl[1], eprint_published |-> fl[2],
       outputfile |-> o, lines |-> f] :
          fl \in FileFlagSets, o \in BOOLEAN, f \in InputFiles }

NoFile == [exists |-> FALSE, content |-> <<>>]

OldFile == [exists |-> TRUE, content |-> << <<"<previous output>">> >>]

VARIABLES
    args,        \* the parsed command line
    pc,          \* the position in the main program
    run,         \* the number of this run of the program
    heap,        \* the BibItem objects, by name: in directive-file mode
                 \* this is BibItem.cache (raw line -> object)
    bibitems,    \* the list bibitems (names of objects)
    fout,        \* "none", "stdout" or "path" (an OpenFileWithPath)
    written,     \* the lines printed to fout (or to stdout when fout is None)
    disk,        \* the file at the output path
    stderr,      \* the warnings printed to stderr
    cachefile,   \* the file imbibe-cache.json
    arxiv_calls, \* the requests made to the preprint service in this run
    doi_calls,   \* the ids submitted to the document service in this run
    idx,         \* the loop index of the output loop
    exit,        \* the exit status (-1 while the program runs)
    exc,         \* the exception that ended the run
    failed_at,   \* the position at which that exception was raised
    prev,        \* what the previous run printed
    disk0,       \* the file at the output path when the run started
    arxiv_batch, \* the last populate_arxiv_information call on a non-empty
                 \* batch: its objects and what the service did
    arxiv_reads, \* the read_arxiv_information calls of this run
    doi_refs,    \* the objects of the last populate_doi_information call
    doi_reads,   \* the read_journal_information calls of this run
    last_render, \* the last output_bib call: its object and what it did
    \* bibextract.py
    delete,      \* whether --delete was given
    xpc,         \* the position in bibextract's main program
    bibfile,     \* the entries of the citation database file
    entries,     \* bibdatabase.entries
    mapped,      \* the list that line 58 is building
    xlines,      \* the list lines of process
    stdout,      \* the lines bibextract has printed
    warnings,    \* the warnings bibextract has printed to stderr
    xexc,        \* the exception that ended bibextract
    resolved,    \* for each entry processed, whether process_entry gave a line
    loaded       \* the entries as bibextract loaded them

\* The variables of bibextract.py
xvars == <<delete, xpc, bibfile, entries, mapped, xlines, stdout, warnings, xexc,
           resolved, loaded>>

\* The variables of imbibe's main program
mainvars == <<args, pc, run, heap, bibitems, fout, written, disk, stderr,
              cachefile, arxiv_calls, doi_calls, idx, exit, exc, failed_at,
              prev, disk0, arxiv_batch, arxiv_reads, doi_refs, doi_reads,
              last_render>>

vars == <<mainvars, xvars>>

\* bibextract.py is not running.
ExtractorIdle ==
    /\ delete = FALSE
    /\ xpc = "off"
    /\ bibfile = <<>>
    /\ entries = <<>>
    /\ mapped = <<>>
    /\ xlines = <<>>
    /\ stdout = <<>>
    /\ warnings = <<>>
    /\ xexc = ""
    /\ resolved = <<>>
    /\ loaded = <<>>

\* The variables that only record what happened
hist == <<arxiv_batch, arxiv_reads, doi_refs, doi_reads, last_render>>

\* print is rebound to myprint in directive-file mode only (lines 465-468)
viamyprint == args.mode = "file"

\* The state when the interpreter starts on one of the command lines of A.
InitWith(A) ==
    /\ args \in A
    /\ pc = "start"
    /\ run = 1
    /\ heap = <<>>
    /\ bibitems = <<>>
    /\ fout = "none"
    /\ written = <<>>
    /\ disk \in (IF args.outputfile THEN {NoFile, OldFile} ELSE {NoFile})
    /\ stderr = <<>>
    /\ cachefile = [exists |-> FALSE, data |-> <<>>]
    /\ arxiv_calls = <<>>
    /\ doi_calls = <<>>
    /\ idx = 1
    /\ exit = -1
    /\ exc = ""
    /\ failed_at = ""
    /\ prev = <<>>
    /\ disk0 = disk
    /\ arxiv_batch = None
    /\ arxiv_reads = <<>>
    /\ doi_refs = <<>>
    /\ doi_reads = <<>>
    /\ last_render = None
    /\ ExtractorIdle

Init == InitWith(ArgSets)

\* The except clause without close_and_delete: the output file stays.
Except_keeps_file(e, w) ==
    /\ exc' = e
    /\ failed_at' = pc
    /\ exit' = 1
    /\ pc' = "exited"
    /\ written' = written \o w
    /\ disk' = IF fout = "path" THEN [exists |-> TRUE, content |-> written \o w]
               ELSE disk

\* The except clause of the main program (lines 495-498): close_and_delete
\* the output file when it is an OpenFileWithPath, then re-raise: the
\* interpreter exits with status 1.  w is what the failing step printed to
\* fout before it raised.
Except(e, w) ==
    /\ exc' = e
    /\ failed_at' = pc
    /\ exit' = 1
    /\ pc' = "exited"
    /\ written' = written \o w
    /\ disk' = IF fout = "path" THEN NoFile ELSE disk

\* What a step that does not raise prints to fout.
Prints(w) ==
    /\ written' = written \o w
    /\ disk' = IF fout = "path" THEN [exists |-> TRUE, content |-> written \o w]
               ELSE disk

\* load_cache
load_cache(file) == [l \in DOMAIN file.data |-> init_from_dict(file.data[l])]

\* Lines 450-468: the single-identifier modes build one BibItem; the
\* directive-file mode loads the cache, opens the output and rebinds print.
Start ==
    /\ pc = "start"
    /\ IF args.mode = "arxiv"
       THEN /\ heap' = [r \in {CmdRef} |-> BibItem(Some(args.id), None).val]
            /\ bibitems' = <<CmdRef>>
            /\ pc' = "populate_arxiv"
            /\ UNCHANGED <<fout, disk, stderr>>
       ELSE IF args.mode = "doi"
       THEN /\ heap' = [r \in {CmdRef} |->
                           [BibItem(None, Some(args.id)).val
                               EXCEPT !.bibtex_id = Some(<<"ARTICLE">>)]]
            /\ bibitems' = <<CmdRef>>
            /\ pc' = "populate_arxiv"
            /\ UNCHANGED <<fout, disk, stderr>>
       ELSE /\ heap' = IF cachefile.exists THEN load_cache(cachefile) ELSE <<>>
            /\ stderr' = IF cachefile.exists THEN stderr
                         ELSE Append(stderr, <<CmdRef, "cache-file-not-found">>)
            /\ fout' = IF args.outputfile THEN "path" ELSE "stdout"
            /\ disk' = IF args.outputfile
                       THEN [exists |-> TRUE, content |-> <<>>]
                       ELSE disk
            /\ pc' = "read_input"
            /\ UNCHANGED bibitems
    /\ UNCHANGED <<xvars, args, run, written, cachefile, arxiv_calls, doi_calls, idx,
                   exit, exc, failed_at, prev, disk0, hist>>

\* [ init_from_input_file_line(line) for line in f.readlines()
\*       if line.strip() != '' ]
RECURSIVE ReadLines(_, _, _)
ReadLines(cache, lines, refs) ==
    IF lines = <<>> THEN [exc |-> "", cache |-> cache, refs |-> refs]
    ELSE IF Strip(Head(lines)) = <<>> THEN ReadLines(cache, Tail(lines), refs)
    ELSE LET r == init_from_input_file_line(cache, Head(lines))
         IN IF r.exc # "" THEN [exc |-> r.exc, cache |-> r.cache, refs |-> refs]
            ELSE ReadLines(r.cache, Tail(lines), Append(refs, Head(lines)))

\* The banner: os.environ['IMBIBE_MSG'] or the default message, and an
\* empty line.
Banner == << <<"<msg>">>, <<>> >>

\* Lines 470-480: read the directives, print the banner.
ReadInput ==
    /\ pc = "read_input"
    /\ \E r \in {ReadLines(heap, args.lines, <<>>)} :
          /\ heap' = r.cache
          /\ IF r.exc # ""
             THEN /\ Except(r.exc, <<>>)
                  /\ UNCHANGED bibitems
             ELSE /\ bibitems' = r.refs
                  /\ Prints(IF args.print_keys THEN <<>> ELSE Banner)
                  /\ pc' = "populate_arxiv"
                  /\ UNCHANGED <<exit, exc, failed_at>>
    /\ UNCHANGED <<xvars, args, run, fout, stderr, cachefile, arxiv_calls, doi_calls,
                   idx, prev, disk0, hist>>

\* Line 482, with the service's behaviour drawn from outcomes
PopulateArxivFrom(outcomes) ==
    /\ pc = "populate_arxiv"
    /\ \E svc \in outcomes :
         \E r \in {populate_arxiv_information(heap, bibitems, svc)} :
            /\ heap' = r.heap
            /\ stderr' = stderr \o r.err
            /\ arxiv_calls' = arxiv_calls \o r.calls
            /\ arxiv_reads' = arxiv_reads \o r.reads
            /\ arxiv_batch' =
                 IF r.refs = <<>> THEN arxiv_batch
                 ELSE Some([refs |-> r.refs, batch |-> svc.batch,
                            indiv_ok |-> [i \in 1..Len(svc.indiv) |->
                                             svc.indiv[i] # None]])
            /\ IF r.exc # ""
               THEN Except(r.exc, <<>>)
               ELSE /\ pc' = "populate_doi"
                    /\ UNCHANGED <<written, disk, exit, exc, failed_at>>
    /\ UNCHANGED <<xvars, args, run, bibitems, fout, cachefile, doi_calls, idx, prev,
                   disk0, doi_refs, doi_reads, last_render>>

PopulateArxiv ==
    PopulateArxivFrom(ArxivOutcomes(Len(Filter(heap, bibitems, "arxivid"))))

\* Line 483
PopulateDoi ==
    /\ pc = "populate_doi"
    /\ \E answers \in CrossrefAnswers(Len(Filter(heap, bibitems, "doi"))) :
         \E r \in {populate_doi_information(heap, bibitems, answers)} :
            /\ heap' = r.heap
            /\ doi_calls' = doi_calls \o r.calls
            /\ doi_refs' = r.refs
            /\ doi_reads' = doi_reads \o r.reads
            /\ IF r.exc # ""
               THEN Except(r.exc, r.out)
               ELSE /\ pc' = "output"
                    /\ UNCHANGED <<written, disk, exit, exc, failed_at>>
    /\ UNCHANGED <<xvars, args, run, bibitems, fout, stderr, cachefile, arxiv_calls,
                   idx, prev, disk0, arxiv_batch, arxiv_reads, last_render>>

\* Lines 485-488: the keys-only loop.  print(key, end=", ") raises TypeError
\* when print is myprint, which takes no keyword end; the key is computed
\* first.  The built-in print writes the keys on one line.
RECURSIVE KeysLine(_, _)
KeysLine(h, refs) ==
    IF refs = <<>> THEN [exc |-> "", line |-> <<>>]
    ELSE LET k == generate_bibtexid(h[Head(refs)])
             rest == KeysLine(h, Tail(refs))
         IN IF k.exc # "" THEN [exc |-> k.exc, line |-> <<>>]
            ELSE [exc |-> rest.exc, line |-> k.val \o <<", ">> \o rest.line]

PrintKeys ==
    /\ pc = "output"
    /\ args.print_keys
    /\ LET first == generate_bibtexid(heap[bibitems[1]])
           r == KeysLine(heap, bibitems)
       IN IF viamyprint
          THEN IF bibitems = <<>>
               THEN /\ Prints(<< <<>> >>)
                    /\ pc' = "save"
                    /\ UNCHANGED <<exit, exc, failed_at>>
               ELSE Except(IF first.exc # "" THEN first.exc ELSE "TypeError", <<>>)
          ELSE IF r.exc # ""
               THEN Except(r.exc, IF r.line = <<>> THEN <<>> ELSE <<r.line>>)
               ELSE /\ Prints(<<r.line>>)
                    /\ pc' = "save"
                    /\ UNCHANGED <<exit, exc, failed_at>>
    /\ UNCHANGED <<xvars, args, run, heap, bibitems, fout, stderr, cachefile,
                   arxiv_calls, doi_calls, idx, prev, disk0, hist>>

\* Lines 490-491: one pass of the output loop.
OutputBib ==
    /\ pc = "output"
    /\ ~args.print_keys
    /\ idx <= Len(bibitems)
    /\ \E r \in {output_bib(heap[bibitems[idx]], args.eprint_published, viamyprint)} :
          /\ stderr' = stderr \o [i \in 1..Len(r.err) |-> <<bibitems[idx], r.err[i]>>]
          /\ last_render' = Some([ref |-> bibitems[idx], exc |-> r.exc,
                                  out |-> r.out, err |-> r.err])
          /\ IF r.exc # ""
             THEN /\ Except(r.exc, r.out)
                  /\ UNCHANGED idx
             ELSE /\ Prints(r.out)
                  /\ idx' = idx + 1
                  /\ UNCHANGED <<pc, exit, exc, failed_at>>
    /\ UNCHANGED <<xvars, args, run, heap, bibitems, fout, cachefile, arxiv_calls,
                   doi_calls, prev, disk0, arxiv_batch, arxiv_reads, doi_refs,
                   doi_reads>>

OutputDone ==
    /\ pc = "output"
    /\ ~args.print_keys
    /\ idx > Len(bibitems)
    /\ pc' = "save"
    /\ UNCHANGED <<xvars, args, run, heap, bibitems, fout, written, disk, stderr,
                   cachefile, arxiv_calls, doi_calls, idx, exit, exc, failed_at,
                   prev, disk0, hist>>

\* save_cache
save_cache(cache) == [exists |-> TRUE,
                      data |-> [l \in DOMAIN cache |-> json_dump_item(cache[l])]]

\* Lines 493-494, and the end of the program.
SaveCache ==
    /\ pc = "save"
    /\ cachefile' = IF args.mode = "file" THEN save_cache(heap) ELSE cachefile
    /\ pc' = "exited"
    /\ exit' = 0
    /\ UNCHANGED <<xvars, args, run, heap, bibitems, fout, written, disk, stderr,
                   arxiv_calls, doi_calls, idx, exc, failed_at, prev, disk0, hist>>

\* The program is run again on the same command line; the files stay.
NextRun ==
    /\ pc = "exited"
    /\ exit = 0
    /\ args.mode = "file"
    /\ run < MaxRuns
    /\ run' = run + 1
    /\ prev' = written
    /\ pc' = "start"
    /\ heap' = <<>>
    /\ bibitems' = <<>>
    /\ fout' = "none"
    /\ written' = <<>>
    /\ stderr' = <<>>
    /\ arxiv_calls' = <<>>
    /\ doi_calls' = <<>>
    /\ idx' = 1
    /\ exit' = -1
    /\ exc' = ""
    /\ failed_at' = ""
    /\ disk0' = disk
    /\ arxiv_batch' = None
    /\ arxiv_reads' = <<>>
    /\ doi_refs' = <<>>
    /\ doi_reads' = <<>>
    /\ last_render' = None
    /\ UNCHANGED <<xvars, args, disk, cachefile>>

Next ==
    \/ Start
    \/ ReadInput
    \/ PopulateArxiv
    \/ PopulateDoi
    \/ PrintKeys
    \/ OutputBib
    \/ OutputDone
    \/ SaveCache
    \/ NextRun

Spec == Init /\ [][Next]_vars

\* ------------------------------------------------------------------------
\* The program run on one preprint record whose title the service chooses
\* ------------------------------------------------------------------------
MaxTitleLen == 4

TitleChars == {"Q", "u", " ", "-"}

Titles == UNION { [1..n -> TitleChars] : n \in 0..MaxTitleLen }

LineOrigcase(value) ==
    <<"2", "3", "0", "3", ".", "1", "[">> \o K_origcase \o <<":">> \o value
        \o <<"]", "<nl>">>

\* One --arxiv run, and one directive file for each value of origcase.
TitleArgSets ==
    { [mode |-> "arxiv", id |-> <<"2", "3", "0", "3", ".", "1">>,
       print_keys |-> FALSE, eprint_published |-> TRUE,
       outputfile |-> FALSE, lines |-> <<>>] }
    \cup
    { [mode |-> "file", id |-> <<>>, print_keys |-> FALSE,
       eprint_published |-> TRUE, outputfile |-> FALSE,
       lines |-> <<LineOrigcase(v), LineBlank>>] : v \in {K_yes, K_no, K_auto} }

\* The preprint service answers the batch of n ids, with any title.
TitleOutcomes(n) ==
    { [batch |-> "ok",
       results |-> [i \in 1..n |->
                       [authors |-> << <<"A", " ", "M", "<u-umlaut>", "l">> >>,
                        title |-> t, summary |-> <<"abs">>, doi |-> None]],
       indiv |-> <<>>] : t \in Titles }

InitTitle == InitWith(TitleArgSets)

PopulateArxivTitle ==
    PopulateArxivFrom(TitleOutcomes(Len(Filter(heap, bibitems, "arxivid"))))

NextTitle ==
    \/ Start
    \/ ReadInput
    \/ PopulateArxivTitle
    \/ PopulateDoi
    \/ OutputBib
    \/ OutputDone
    \/ SaveCache

SpecTitle == InitTitle /\ [][NextTitle]_vars

\* ------------------------------------------------------------------------
\* The reverse extractor (bibextract.py)
\* ------------------------------------------------------------------------
MaxEntries == 2

\* str.lower
lower(s) ==
    [i \in 1..Len(s) |-> CASE s[i] = "A" -> "a" [] s[i] = "B" -> "b"
                           [] s[i] = "M" -> "m" [] s[i] = "Q" -> "q"
                           [] OTHER -> s[i]]

\* The keys process_entry needs for the journal reference (lines 14-19)
fieldtranslations == {"journal", "volume", "pages", "year"}

\* An entry of the database is a dict: ID and ENTRYTYPE are always there,
\* fields is the set of the other keys it has; title and imbibeable hold
\* the values of those keys when it has them.
Entry(id, type, fields, imbibeable) ==
    [ID |-> id, ENTRYTYPE |-> type, fields |-> fields,
     title |-> <<"Q", "u">>, imbibeable |-> imbibeable]

EntryIds == { <<"k", "1">>, <<"k", "2">> }

EntryShapes(id) ==
    { Entry(id, "article", fieldtranslations \cup {"title"}, ""),
      Entry(id, "article", fieldtranslations, ""),
      Entry(id, "article", {"journal", "volume", "year", "title"}, ""),
      Entry(id, "book", fieldtranslations \cup {"title"}, ""),
      Entry(id, "article", fieldtranslations \cup {"imbibeable"}, "no"),
      Entry(id, "article", fieldtranslations \cup {"title", "imbibeable"}, "yes") }

Entries == UNION { EntryShapes(id) : id \in EntryIds }

Databases == UNION { [1..n -> Entries] : n \in 0..MaxEntries }

\* What imbibe.crossref_find_from_journalref does in one call: it raises,
\* or returns None or a match.
JournalrefOutcomes ==
    { [raises |-> TRUE, val |-> None], [raises |-> FALSE, val |-> None] }
    \cup { [raises |-> FALSE, val |-> Some([title |-> t, DOI |-> DoiA])] :
              t \in { <<>>, << <<"q", "u">> >>, << <<"u">> >> } }

\* What imbibe.arxiv_find_from_doi does in one call: it raises, or returns
\* None or a preprint id.
ArxivFindOutcomes ==
    { [raises |-> TRUE, val |-> None], [raises |-> FALSE, val |-> None],
      [raises |-> FALSE, val |-> Some(<<"2", "3", "0", "3", ".", "1">>)] }

\* What process_entry returns: exc the exception, val the line or None, err
\* the warnings printed.
Returns(val, err) == [exc |-> "", val |-> val, err |-> err]

Raises(e, err) == [exc |-> e, val |-> None, err |-> err]

\* Lines 38-46: the entry has a match.
ProcessMatched(entry, match, arx, err) ==
    IF arx.raises THEN Raises("Exception", err)
    ELSE IF arx.val = None
    THEN Returns(Some(<<"doi:">> \o match.DOI \o <<" [bibtex_id:">>
                         \o entry.ID \o <<"]">>),
                 Append(err, "no-arxiv-id"))
    ELSE Returns(Some(arx.val[1] \o <<" [bibtex_id:">> \o entry.ID \o <<"]">>), err)

\* process_entry; find and arx are what the two lookups do when called.
process_entry(entry, find, arx) ==
    IF entry.ENTRYTYPE # "article" THEN Returns(None, <<>>)
    ELSE IF "imbibeable" \in entry.fields /\ entry.imbibeable = "no"
    THEN Returns(None, <<>>)
    ELSE IF ~(fieldtranslations \subseteq entry.fields) THEN Returns(None, <<>>)
    ELSE IF find.raises THEN Raises("Exception", <<>>)
    ELSE IF find.val = None THEN Returns(None, <<"lookup-failed">>)
    ELSE IF "title" \in entry.fields /\ find.val[1].title = <<>>
    THEN Raises("IndexError", <<>>)
    ELSE ProcessMatched(entry, find.val[1], arx,
                        IF /\ "title" \in entry.fields
                           /\ lower(find.val[1].title[1]) # lower(entry.title)
                        THEN <<"titles-disagree">> ELSE <<>>)

\* process_entry_ that keeps the entry whatever the line.
process_entry_keeps_entry(entry, line) ==
    [elem |-> Some(entry),
     lines |-> IF line = None THEN <<>> ELSE <<line[1]>>]

\* process_entry_ (lines 50-56): the element of the new list, and what is
\* appended to lines.
process_entry_(entry, line) ==
    [elem |-> IF line = None THEN Some(entry) ELSE None,
     lines |-> IF line = None THEN <<>> ELSE <<line[1]>>]

\* bibextract.py is started on a database file.
MainIdle ==
    /\ args = [mode |-> "none", id |-> <<>>, print_keys |-> FALSE,
               eprint_published |-> TRUE, outputfile |-> FALSE, lines |-> <<>>]
    /\ pc = "off"
    /\ run = 1
    /\ heap = <<>>
    /\ bibitems = <<>>
    /\ fout = "none"
    /\ written = <<>>
    /\ disk = NoFile
    /\ stderr = <<>>
    /\ cachefile = [exists |-> FALSE, data |-> <<>>]
    /\ arxiv_calls = <<>>
    /\ doi_calls = <<>>
    /\ idx = 1
    /\ exit = -1
    /\ exc = ""
    /\ failed_at = ""
    /\ prev = <<>>
    /\ disk0 = NoFile
    /\ arxiv_batch = None
    /\ arxiv_reads = <<>>
    /\ doi_refs = <<>>
    /\ doi_reads = <<>>
    /\ last_render = None

InitExtract ==
    /\ MainIdle
    /\ delete \in BOOLEAN
    /\ xpc = "start"
    /\ bibfile \in Databases
    /\ entries = <<>>
    /\ mapped = <<>>
    /\ xlines = <<>>
    /\ stdout = <<>>
    /\ warnings = <<>>
    /\ xexc = ""
    /\ resolved = <<>>
    /\ loaded = <<>>

\* Lines 72-73: bibtexparser.load
Load ==
    /\ xpc = "start"
    /\ entries' = bibfile
    /\ loaded' = bibfile
    /\ xpc' = "process"
    /\ UNCHANGED <<mainvars, delete, bibfile, mapped, xlines, stdout, warnings,
                   xexc, resolved>>

\* Line 58: one element of the list comprehension.  An exception leaves
\* the comprehension, process and the program.
ProcessEntry ==
    /\ xpc = "process"
    /\ Len(mapped) < Len(entries)
    /\ \E find \in JournalrefOutcomes, arx \in ArxivFindOutcomes :
         \E r \in {process_entry(entries[Len(mapped) + 1], find, arx)} :
            /\ warnings' = warnings \o r.err
            /\ IF r.exc # ""
               THEN /\ xexc' = r.exc
                    /\ xpc' = "exited"
                    /\ UNCHANGED <<mapped, xlines, resolved>>
               ELSE \E e \in {process_entry_(entries[Len(mapped) + 1], r.val)} :
                       /\ mapped' = Append(mapped, e.elem)
                       /\ xlines' = xlines \o e.lines
                       /\ resolved' = Append(resolved, r.val # None)
                       /\ UNCHANGED <<xexc, xpc>>
    /\ UNCHANGED <<mainvars, delete, bibfile, entries, stdout, loaded>>

\* Lines 58-62 after the last element, and line 77 without --delete.
ProcessReturn ==
    /\ xpc = "process"
    /\ Len(mapped) = Len(entries)
    /\ entries' = Flatten(mapped)
    /\ stdout' = stdout \o xlines
    /\ xpc' = IF delete THEN "dump" ELSE "exited"
    /\ UNCHANGED <<mainvars, delete, bibfile, mapped, xlines, warnings, xexc,
                   resolved, loaded>>

\* Lines 77-79: bibtexparser.dump
Dump ==
    /\ xpc = "dump"
    /\ bibfile' = entries
    /\ xpc' = "exited"
    /\ UNCHANGED <<mainvars, delete, entries, mapped, xlines, stdout, warnings,
                   xexc, resolved, loaded>>

NextExtract ==
    \/ Load
    \/ ProcessEntry
    \/ ProcessReturn
    \/ Dump

SpecExtract == InitExtract /\ [][NextExtract]_vars

\* ------------------------------------------------------------------------
\* Properties
\* ------------------------------------------------------------------------
\* The run ended in a fatal error after the output path was opened.
FailedAfterOpen == pc = "exited" /\ exit = 1 /\ fout = "path"

\* C1 (as stated): after a fatal error raised once the output path was
\* opened, no partial output is at the path, and an output file a previous
\* run left there still has its previous contents.
C1_PreviousOutputKept ==
    FailedAfterOpen =>
        /\ disk0.exists => disk = disk0
        /\ ~disk0.exists => ~disk.exists

\* C1 (amended): after a fatal error raised once the output path was opened
\* there is no file at the output path at all, whether or not a previous run
\* had left one there; while the run has not failed the file holds what
\* the run has printed so far.
C1_NoOutputFileAfterFailure ==
    /\ FailedAfterOpen => ~disk.exists
    /\ (fout = "path" /\ exit # 1) => disk = [exists |-> TRUE, content |-> written]

\* A run that failed after it had printed part of its output over the file
\* of a previous run.
C1_Witness ==
    FailedAfterOpen /\ disk0.exists /\ Len(written) > Len(Banner)

\* C2: a second run on the same directive file with the cache the first
\* run saved makes no request to either service, succeeds, and prints what
\* the first run printed; every record about to be saved is, attribute by
\* attribute, what loading the saved cache gives back.
C2_WarmCacheRun ==
    /\ run >= 2 =>
          /\ arxiv_calls = <<>>
          /\ doi_calls = <<>>
          /\ pc = "exited" => (exit = 0 /\ written = prev)
    /\ (pc = "save" /\ args.mode = "file") => load_cache(save_cache(heap)) = heap

\* A second run has ended and rendered a record that both resolvers had
\* populated in the first.
C2_Witness ==
    /\ run = 2
    /\ pc = "exited"
    /\ last_render # None
    /\ \E i \in 1..Len(bibitems) :
          /\ heap[bibitems[i]].arxiv_populated
          /\ heap[bibitems[i]].doi_populated
          /\ heap[bibitems[i]].journal # None

\* The record of read i is one that no earlier read of the run was about.
FirstReadOf(reads, i) == \A j \in 1..(i-1) : reads[j].ref # reads[i].ref

JournalFieldsUnset(rec) ==
    /\ rec.journal = None
    /\ ~rec.doi_populated
    /\ rec.attrs \cap {"journal_short", "year", "volume", "page"} = {}

\* C3: reading a document-service response whose type is not
\* "journal-article" ends the process with a non-zero status and leaves the
\* record as it was: no journal field is set from it and, for a record not
\* read before, the document_populated flag is still false.
C3_BadTypeIsFatal ==
    \A i \in 1..Len(doi_reads) :
        doi_reads[i].type # "journal-article" =>
            /\ pc = "exited"
            /\ exit = 1
            /\ failed_at = "populate_doi"
            /\ i = Len(doi_reads)
            /\ ~doi_reads[i].changed
            /\ FirstReadOf(doi_reads, i) => JournalFieldsUnset(heap[doi_reads[i].ref])

\* A response of type proceedings-article was read for a record.
C3_Witness ==
    \E i \in 1..Len(doi_reads) :
        /\ doi_reads[i].type = "proceedings-article"
        /\ FirstReadOf(doi_reads, i)
        /\ exit = 1

DoiConflict(e) ==
    e.doi_before # None /\ e.doi_result # None /\ e.doi_before # e.doi_result

\* The number of doi warnings on stderr for the record ref.
DoiWarnings(ref) ==
    Cardinality({k \in 1..Len(stderr) : stderr[k] = <<ref, "doi-disagrees">>})

LinesWith(out, tag) == {i \in 1..Len(out) : Len(out[i]) > 0 /\ out[i][1] = tag}

\* The indices of the title lines of out.
TitleLinesOf(out) ==
    {i \in 1..Len(out) : /\ Len(out[i]) >= Len(TitleOpen)
                         /\ SubSeq(out[i], 1, Len(TitleOpen)) = TitleOpen}

\* t wrapped whole in an extra pair of braces, as a title line.
WrappedWhole(t) == TitleOpen \o <<"{">> \o t \o <<"}", "}", ",">>

\* Position i of t begins a whitespace-separated word.
BeginsWord(t, i) == ~isspace(t[i]) /\ (i = 1 \/ isspace(t[i-1]))

\* More than half of the whitespace-separated words of t start with an
\* uppercase letter.
MostlyCapitalized(t) ==
    2 * Cardinality({i \in 1..Len(t) : BeginsWord(t, i) /\ isupper(t[i])})
        > Cardinality({i \in 1..Len(t) : BeginsWord(t, i)})

HasNoWord(t) == \A i \in 1..Len(t) : isspace(t[i])

\* Position i of t begins, or ends, a maximal run of word characters.
RunBegins(t, i) == isword(t[i]) /\ (i = 1 \/ ~isword(t[i-1]))

RunEnds(t, i) == isword(t[i]) /\ (i = Len(t) \/ ~isword(t[i+1]))

\* The run of word characters of t from a to b is on the capitalized-words
\* list and starts with an uppercase letter.
ListedRun(t, a, b) ==
    /\ RunBegins(t, a)
    /\ RunEnds(t, b)
    /\ \A j \in a..b : isword(t[j])
    /\ isupper(t[a])
    /\ SubSeq(t, a, b) \in protected_words

\* t with a pair of braces around each such run and nothing else changed.
SelectivelyBraced(t) ==
    Flatten([i \in 1..Len(t) |->
                (IF \E b \in i..Len(t) : ListedRun(t, i, b) THEN <<"{">> ELSE <<>>)
                \o <<t[i]>>
                \o (IF \E a \in 1..i : ListedRun(t, a, i) THEN <<"}">> ELSE <<>>)])

\* The case policy of a record: None for auto or absent.
CasePolicy(rec) == IF "origcase" \in rec.attrs THEN rec.origcase ELSE None

\* The rendering e has exactly one title line: t wrapped whole when whole
\* holds, selectively braced otherwise.
TitleRendered(e, t, whole) ==
    /\ e.exc = ""
    /\ Cardinality(TitleLinesOf(e.out)) = 1
    /\ \E i \in TitleLinesOf(e.out) :
          e.out[i] = IF whole THEN WrappedWhole(t)
                     ELSE TitleOpen \o SelectivelyBraced(t) \o <<"}", ",">>

C5Stated(e, rec) ==
    (CasePolicy(rec) # None \/ rec.title # <<>>) =>
        TitleRendered(e, rec.title,
                      \/ CasePolicy(rec) = Some(TRUE)
                      \/ CasePolicy(rec) = None /\ MostlyCapitalized(rec.title))

\* C5 (as stated): under an auto or absent case policy a non-empty title of
\* which more than half of the words start with an uppercase letter is
\* wrapped whole in an extra pair of braces, and any other title has only
\* its listed words wrapped; an explicit yes or no is honored.
C5_WrapsMostlyCapitalized ==
    last_render # None => C5Stated(last_render[1], heap[last_render[1].ref])

C5Amended(e, rec) ==
    IF CasePolicy(rec) = None /\ HasNoWord(rec.title)
    THEN /\ e.exc = "ZeroDivisionError"
         /\ TitleLinesOf(e.out) = {}
    ELSE TitleRendered(e, rec.title,
                       \/ CasePolicy(rec) = Some(TRUE)
                       \/ CasePolicy(rec) = None /\ ~MostlyCapitalized(rec.title))

\* C5 (amended): under an auto or absent case policy a title with at least
\* one word of which more than half of the words start with an uppercase
\* letter has only its listed words wrapped in braces, and any other title
\* with at least one word is wrapped whole in an extra pair of braces; a
\* title with no word is an error and no title line is printed; an explicit
\* yes wraps the whole title and an explicit no wraps the listed words only.
C5_WrapsUnlessMostlyCapitalized ==
    last_render # None => C5Amended(last_render[1], heap[last_render[1].ref])

\* A mostly capitalized title was rendered under the automatic policy with
\* a listed word in braces and not wrapped whole.
C5_Witness ==
    /\ last_render # None
    /\ CasePolicy(heap[last_render[1].ref]) = None
    /\ MostlyCapitalized(heap[last_render[1].ref].title)
    /\ \E i \in TitleLinesOf(last_render[1].out) :
          /\ last_render[1].out[i] # WrappedWhole(heap[last_render[1].ref].title)
          /\ \E k \in (Len(TitleOpen) + 1)..Len(last_render[1].out[i]) :
                last_render[1].out[i][k] = "{"

\* The record can be given a key.
HasKey(rec) == rec.bibtex_id # None \/ rec.arxivid # None

SuppressionRequested(rec) ==
    "suppress_volumewarning" \in rec.attrs /\ rec.suppress_volumewarning

C6Stated(e, rec) ==
    (rec.doi_populated /\ rec.journal # None /\ rec.volume = None /\ HasKey(rec)) =>
        /\ e.exc = ""
        /\ LinesWith(e.out, "  journal={") # {}
        /\ LinesWith(e.out, "  pages={") # {}
        /\ LinesWith(e.out, "  year={") # {}
        /\ LinesWith(e.out, "  volume={") = {}
        /\ LinesWith(e.out, "  author={") # {}
        /\ e.err = IF SuppressionRequested(rec) THEN <<>> ELSE <<"no-volume">>

\* C6: rendering a document-populated record whose response had no volume
\* prints the journal, pages and year lines and no volume line, completes
\* the entry, and emits one missing-volume warning, or none when
\* suppression was requested, however the record was constructed.
C6_MissingVolumeRendering ==
    last_render # None => C6Stated(last_render[1], heap[last_render[1].ref])

\* The rendering e opens with the comment, if any, then the marker and key.
KeyIs(e, rec, key) ==
    /\ LinesWith(e.out, "@article{") = {IF rec.comment = None THEN 1 ELSE 2}
    /\ \E i \in LinesWith(e.out, "@article{") : e.out[i] = <<"@article{">> \o key \o <<",">>

\* The family names and the preprint ids of the model's data: Crossref's
\* first author is Ma, arXiv's is "A M<u-umlaut>l"; the ids are 2303.1 and h/99017.
ExpectedFamily(rec) ==
    IF rec.detailed_authors # None THEN <<"M", "a">> ELSE <<"M", "u", "l">>

ExpectedStamp(arxivid) ==
    IF arxivid[1] = "h" THEN <<"9", "9", "0", "1">> ELSE <<"2", "3", "0", "3">>

C7Holds(e, rec) ==
    /\ rec.bibtex_id # None => KeyIs(e, rec, rec.bibtex_id[1])
    /\ (rec.bibtex_id = None /\ rec.arxivid = None) =>
          (e.exc = "ValueError" /\ e.out = <<>>)
    /\ (rec.bibtex_id = None /\ rec.arxivid # None) =>
          KeyIs(e, rec, ExpectedFamily(rec) \o <<"_">> \o ExpectedStamp(rec.arxivid[1]))

\* C7: the key of a rendered record is its explicit formatting id when it
\* has one; a record with neither a formatting id nor a preprint id is an
\* error that prints no line at all; otherwise the key is the first
\* author's family name, an underscore and the year and month of the
\* preprint id.  A single-identifier keys-only run prints that same key.
C7_KeyGeneration ==
    /\ last_render # None => C7Holds(last_render[1], heap[last_render[1].ref])
    /\ (args.mode = "arxiv" /\ args.print_keys /\ pc = "save") =>
          written = << ExpectedFamily(heap[CmdRef]) \o <<"_">>
                          \o ExpectedStamp(args.id) \o <<", ">> >>
    /\ (args.mode = "doi" /\ args.print_keys /\ pc = "save") =>
          written = << <<"ARTICLE", ", ">> >>

\* A record with a document id only and no formatting id was rendered.
C7_Witness ==
    /\ last_render # None
    /\ heap[last_render[1].ref].bibtex_id = None
    /\ heap[last_render[1].ref].arxivid = None
    /\ last_render[1].exc = "ValueError"
    /\ exit = 1

\* The preprint ids of the batch b, in request order.
BatchIds(b) == [i \in 1..Len(b.refs) |-> heap[b.refs[i]].arxivid[1]]

\* The first k individual lookups of the batch b, in request order.
IndividualCalls(b, k) == [i \in 1..k |-> <<BatchIds(b)[i]>>]

\* The run ended in the preprint resolver and no record of b is populated.
FatalInArxivResolver(b) ==
    /\ pc = "exited"
    /\ exit = 1
    /\ failed_at = "populate_arxiv"
    /\ \A i \in 1..Len(b.refs) : ~heap[b.refs[i]].arxiv_populated

C8Stated(b) ==
    /\ b.batch = "400" =>
          /\ FatalInArxivResolver(b)
          /\ \E k \in 1..Len(b.refs) :
                arxiv_calls = <<BatchIds(b)>> \o IndividualCalls(b, k)
    /\ b.batch = "other" =>
          /\ FatalInArxivResolver(b)
          /\ arxiv_calls = <<BatchIds(b)>>

FirstFailure(b, k) == ~b.indiv_ok[k] /\ \A j \in 1..(k-1) : b.indiv_ok[j]

C8Amended(b) ==
    /\ (b.batch = "400" /\ \E k \in 1..Len(b.refs) : ~b.indiv_ok[k]) =>
          /\ FatalInArxivResolver(b)
          /\ \E k \in 1..Len(b.refs) :
                /\ FirstFailure(b, k)
                /\ arxiv_calls = <<BatchIds(b)>> \o IndividualCalls(b, k)
    /\ (b.batch = "400" /\ \A k \in 1..Len(b.refs) : b.indiv_ok[k]) =>
          /\ failed_at # "populate_arxiv"
          /\ arxiv_calls = <<BatchIds(b)>> \o IndividualCalls(b, Len(b.refs))
          /\ \A i \in 1..Len(b.refs) : heap[b.refs[i]].arxiv_populated
    /\ b.batch = "other" =>
          /\ FatalInArxivResolver(b)
          /\ arxiv_calls = <<BatchIds(b)>>

DoiResolverReturned ==
    \/ pc \in {"output", "save"}
    \/ pc = "exited" /\ failed_at \in {"", "output", "save"}

\* C9 (as stated): each distinct document id is submitted to the document
\* service at most once per run, and every record with a document id is
\* document-populated when the resolver returns.
C9_EachIdSubmittedOnce ==
    /\ \A i, j \in 1..Len(doi_calls) : doi_calls[i] = doi_calls[j] => i = j
    /\ DoiResolverReturned =>
          \A i \in 1..Len(bibitems) :
              heap[bibitems[i]].doi # None => heap[bibitems[i]].doi_populated

HasDoi(ref) == heap[ref].doi # None

\* C9 (amended): the document resolver submits one id per entry of the
\* record list that has a document id and is not yet document-populated,
\* in list order and without deduplication, and every record with a
\* document id is document-populated when the resolver returns.
C9_OneSubmissionPerEntry ==
    DoiResolverReturned =>
        /\ doi_calls = [i \in 1..Len(doi_refs) |-> heap[doi_refs[i]].doi[1]]
        /\ run = 1 => doi_refs = SelectSeq(bibitems, HasDoi)
        /\ \A i \in 1..Len(bibitems) :
              heap[bibitems[i]].doi # None => heap[bibitems[i]].doi_populated

\* The resolver returned after submitting one document id twice, for two
\* different records.
C9_Witness ==
    /\ DoiResolverReturned
    /\ \E i, j \in 1..Len(doi_calls) :
          i < j /\ doi_calls[i] = doi_calls[j] /\ doi_refs[i] # doi_refs[j]

\* C10: a keys-only run on a directive file whose records all resolve and
\* have a key succeeds and prints the keys of the records in input order,
\* separated by commas, with no banner.
C10_KeysOnlyFileRun ==
    ( /\ args.mode = "file"
      /\ args.print_keys
      /\ pc = "exited"
      /\ failed_at \notin {"read_input", "populate_arxiv", "populate_doi"}
      /\ \A i \in 1..Len(bibitems) : HasKey(heap[bibitems[i]]) ) =>
        /\ exit = 0
        /\ written = << KeysLine(heap, bibitems).line >>

\* process has returned.
ProcessReturned == xpc = "dump" \/ (xpc = "exited" /\ xexc = "")

\* The k-th smallest element of the set S of numbers.
NthOf(S, k) == CHOOSE i \in S : Cardinality({j \in S : j <= i}) = k

\* The indices of the loaded entries for which process_entry gave, or did
\* not give, a line.
RemovedIndices == {i \in 1..Len(resolved) : resolved[i]}

KeptIndices == {i \in 1..Len(resolved) : ~resolved[i]}

\* The line ends with the option that carries the key of the entry.
CarriesKey(line, entry) ==
    /\ Len(line) >= Len(entry.ID) + 2
    /\ SubSeq(line, Len(line) - Len(entry.ID) - 1, Len(line))
          = <<" [bibtex_id:">> \o entry.ID \o <<"]">>

\* C11: when process returns, the entries left in the database are exactly
\* the entries for which no directive line was produced, unchanged and in
\* their original order; one line was printed for each removed entry, in
\* the original order of those entries; and the number of lines plus the
\* number of entries left is the original number of entries.  Until then,
\* and when process is ended by an exception, the database is as loaded
\* and nothing has been printed.
C11_ProcessPartitions ==
    /\ ProcessReturned =>
          /\ Len(resolved) = Len(loaded)
          /\ Len(entries) = Cardinality(KeptIndices)
          /\ \A k \in 1..Len(entries) : entries[k] = loaded[NthOf(KeptIndices, k)]
          /\ Len(stdout) = Cardinality(RemovedIndices)
          /\ \A k \in 1..Len(stdout) :
                CarriesKey(stdout[k], loaded[NthOf(RemovedIndices, k)])
          /\ Len(stdout) + Len(entries) = Len(loaded)
    /\ (xpc = "process" \/ (xpc = "exited" /\ xexc # "")) =>
          (entries = loaded /\ stdout = <<>>)

\* process returned after it had resolved one of two entries with
\* different keys and left the other.
C11_Witness ==
    /\ ProcessReturned
    /\ Len(loaded) = 2
    /\ loaded[1].ID # loaded[2].ID
    /\ Cardinality(RemovedIndices) = 1
    /\ Len(entries) = 1
    /\ Len(stdout) = 1

====
